---- MODULE Spec2Model ----
(***************************************************************************)
(* Model of LandDetector::start / LandDetector::Run                        *)
(* (src/modules/land_detector/LandDetector.cpp).                           *)
(*                                                                         *)
(* Time is counted in ticks of the monotonic clock hrt_absolute_time();    *)
(* one tick stands for half a second, so the 1_s of the publish rule is    *)
(* ONE_S ticks.  The 50 ms back-up schedule is shorter than a tick: a      *)
(* pending schedule may fire at any moment.  The 64-bit flight time        *)
(* accumulator and its two 32-bit parameter halves keep their shape with   *)
(* HalfBits bits per half (all arithmetic is modulo 2^(2*HalfBits)).       *)
(* alt_max is a float; it is counted in units of FLT_EPSILON, INFINITY_F   *)
(* stands for +infinity.                                                   *)
(***************************************************************************)
EXTENDS Integers, FiniteSets, Sequences, TLC

\* ------------------------------------------------------------- bounds
MaxTime == 5        \* the clock stops advancing at this tick
HalfBits == 2       \* bits of one persisted half (32 in the program)

\* ---------------------------------------------------- program constants
ONE_S == 2          \* 1_s of the publish rule, in ticks
ALT_EPSILON == 1    \* FLT_EPSILON, the unit alt_max is counted in
INFINITY_F == 99    \* INFINITY
ALT_MAX_INIT == -50 \* _land_detected.alt_max before the first publish (-1.0f)
HIGH_FACTOR == 3    \* _set_hysteresis_factor(3)
NOMINAL_FACTOR == 1 \* _set_hysteresis_factor(1)
DIST_BOTTOM_SENSOR_RANGE == 1 \* vehicle_local_position_s::DIST_BOTTOM_SENSOR_RANGE
DIST_BOTTOM_SENSOR_FLOW == 2  \* the other bit of dist_bottom_sensor_bitfield

Pow2(n) == 2 ^ n
HalfMod == Pow2(HalfBits)            \* 2^32 in the program
WordMod == Pow2(2 * HalfBits)        \* 2^64 in the program

\* -------------------------------------------------------- bit arithmetic
RECURSIVE BitAnd(_, _)
BitAnd(a, b) ==
    IF a = 0 \/ b = 0 THEN 0
    ELSE ((a % 2) * (b % 2)) + 2 * BitAnd(a \div 2, b \div 2)

RECURSIVE BitOr(_, _)
BitOr(a, b) ==
    IF a = 0 THEN b
    ELSE IF b = 0 THEN a
    ELSE (IF (a % 2) + (b % 2) > 0 THEN 1 ELSE 0) + 2 * BitOr(a \div 2, b \div 2)

\* uint32_t -> int32_t (param.set of a uint32_t value): two's complement
ToInt32(u) == IF u >= HalfMod \div 2 THEN u - HalfMod ELSE u
\* static_cast<uint32_t>(int32_t)
ToUint32(i) == i % HalfMod
\* static_cast<uint64_t>(int32_t): sign extension to the full word
ToUint64(i) == i % WordMod

Int32 == (0 - (HalfMod \div 2)) .. ((HalfMod \div 2) - 1)


\* ---------------------------------------------------------------- state
VARIABLES
    clock,                      \* hrt_absolute_time(), in ticks
    pc,                         \* "init" | "idle" | "ran" | "exited"
    scheduled,                  \* a ScheduleDelayed(50_ms) is pending
    callback_registered,        \* _vehicle_local_position_sub.registerCallback()
    exit_requested,             \* should_exit()
    param_updated,              \* _parameter_update_sub.updated()
    params,                     \* LND_FLIGHT_T_HI / LND_FLIGHT_T_LO in the parameter store
    _total_flight_time,
    _takeoff_time,              \* 0 is "unset"
    _armed,
    _previous_armed_state,
    _vehicle_local_position,    \* cached report: sensor bitfield, dist_bottom_valid
    _dist_bottom_is_observable,
    _high_hysteresis_active,
    hysteresis_factor,          \* what _set_hysteresis_factor last set
    gates,                      \* the five systemlib::Hysteresis members
    _land_detected,             \* the last published vehicle_land_detected_s
    _acceleration,              \* cached vehicle_acceleration: its timestamp, 0 = none yet
    _vehicle_status,            \* cached vehicle_status: its timestamp, 0 = none yet
    airborne_time,              \* time armed with the debounced landed output false, this arming
    differs_since,              \* per gate: since when every raw observation differed from its output (0: none)
    cycle                       \* what the latest Run saw and did

vars == << clock, pc, scheduled, callback_registered, exit_requested, param_updated,
           params, _total_flight_time, _takeoff_time, _armed, _previous_armed_state,
           _vehicle_local_position, _dist_bottom_is_observable, _high_hysteresis_active,
           hysteresis_factor, gates, _land_detected, differs_since, cycle,
                    _acceleration, _vehicle_status, airborne_time >>

Gates == {"freefall", "ground_contact", "maybe_landed", "landed", "ground_effect"}

\* the gates _set_hysteresis_factor rescales (the ground-contact related ones)
FactorGates == {"ground_contact", "maybe_landed", "landed"}

\* ------------------------------------------------------ hysteresis gate
\* dwell time before the output may leave false (enter delay) / leave true (exit delay)
TimeFromFalse(g) == 1
TimeFromTrue(g) == IF g = "ground_effect" THEN 1 ELSE 0

ScaleFactor(g, factor) == IF g \in FactorGates THEN factor ELSE 1

\* threshold of the transition towards new_state, scaled
Threshold(g, new_state, factor) ==
    ScaleFactor(g, factor) * (IF new_state THEN TimeFromFalse(g) ELSE TimeFromTrue(g))

NewGate(initial) == [state |-> initial, requested |-> initial, last_time |-> 0]

\* Hysteresis::set_state_and_update(new_state, now_us) on gate record h
set_state_and_update(h, new_state, now_us, threshold) ==
    LET req == IF new_state # h.state
               THEN (IF new_state # h.requested
                     THEN [h EXCEPT !.requested = new_state, !.last_time = now_us]
                     ELSE h)
               ELSE [h EXCEPT !.requested = h.state, !.last_time = 0]
    IN  IF req.requested # req.state /\ now_us - req.last_time >= threshold
        THEN [state |-> req.requested, requested |-> req.requested, last_time |-> 0]
        ELSE req

\* ----------------------------------------------------- flight time halves
\* bug: the low half is or-ed in without the uint32_t cast (sign extension)
JoinHalves_SignExtended(high, low) ==
    BitOr((ToUint64(high) * HalfMod) % WordMod, ToUint64(low))

\* lines 78-79: (uint64_t)high << 32 | (uint32_t)low
JoinHalves(high, low) ==
    BitOr((ToUint64(high) * HalfMod) % WordMod, ToUint32(low))

\* line 160 and 162: (total >> 32) & 0xffffffff, set into the int32 parameter
HighHalf(total) == ToInt32(BitAnd(total \div HalfMod, HalfMod - 1))
\* line 165 and 167
LowHalf(total) == ToInt32(BitAnd(total, HalfMod - 1))

\* bug: the first-cycle test is missing
RefreshNeeded_OnlyUpdated(updated, timestamp) == updated

\* line 71
RefreshNeeded(updated, timestamp) == updated \/ timestamp = 0

\* lines 71-80: the accumulator after the parameter step
RefreshedTotal(refresh, total, p) ==
    IF refresh THEN JoinHalves(p.high, p.low) ELSE total

\* ------------------------------------------------ observability tracker
RangeBit(lpos) == BitAnd(lpos.dist_bottom_sensor_bitfield, DIST_BOTTOM_SENSOR_RANGE) # 0

\* _set_hysteresis_factor(factor): the factor the gates then run with
_set_hysteresis_factor(factor) == factor

\* bug: the flag follows the live sensor bit instead of latching
DistBottomTracker_Live(observable, high, factor, lpos) ==
    IF ~RangeBit(lpos)
    THEN [observable |-> FALSE, high |-> high, factor |-> factor, set |-> FALSE]
    ELSE IF ~observable
    THEN [observable |-> TRUE, high |-> high, factor |-> factor, set |-> FALSE]
    ELSE IF ~high /\ ~lpos.dist_bottom_valid
    THEN [observable |-> observable, high |-> TRUE,
          factor |-> _set_hysteresis_factor(HIGH_FACTOR), set |-> TRUE]
    ELSE IF high /\ lpos.dist_bottom_valid
    THEN [observable |-> observable, high |-> FALSE,
          factor |-> _set_hysteresis_factor(NOMINAL_FACTOR), set |-> TRUE]
    ELSE [observable |-> observable, high |-> high, factor |-> factor, set |-> FALSE]

\* bug: the sensitivity test is not an else branch, it runs in every cycle
DistBottomTracker_NoElse(observable, high, factor, lpos) ==
    IF ~high /\ ~lpos.dist_bottom_valid
    THEN [observable |-> observable \/ RangeBit(lpos), high |-> TRUE,
          factor |-> _set_hysteresis_factor(HIGH_FACTOR), set |-> TRUE]
    ELSE IF high /\ lpos.dist_bottom_valid
    THEN [observable |-> observable \/ RangeBit(lpos), high |-> FALSE,
          factor |-> _set_hysteresis_factor(NOMINAL_FACTOR), set |-> TRUE]
    ELSE [observable |-> observable \/ RangeBit(lpos), high |-> high, factor |-> factor,
          set |-> FALSE]

\* bug: recovery lowers the factor but leaves _high_hysteresis_active set
DistBottomTracker_StaleFlag(observable, high, factor, lpos) ==
    IF ~observable
    THEN [observable |-> RangeBit(lpos), high |-> high, factor |-> factor, set |-> FALSE]
    ELSE IF ~high /\ ~lpos.dist_bottom_valid
    THEN [observable |-> observable, high |-> TRUE,
          factor |-> _set_hysteresis_factor(HIGH_FACTOR), set |-> TRUE]
    ELSE IF high /\ lpos.dist_bottom_valid
    THEN [observable |-> observable, high |-> TRUE,
          factor |-> _set_hysteresis_factor(NOMINAL_FACTOR), set |-> TRUE]
    ELSE [observable |-> observable, high |-> high, factor |-> factor, set |-> FALSE]

\* lines 99-113; set: whether _set_hysteresis_factor was called
DistBottomTracker(observable, high, factor, lpos) ==
    IF ~observable
    THEN [observable |-> RangeBit(lpos), high |-> high, factor |-> factor, set |-> FALSE]
    ELSE IF ~high /\ ~lpos.dist_bottom_valid
    THEN [observable |-> observable, high |-> TRUE,
          factor |-> _set_hysteresis_factor(HIGH_FACTOR), set |-> TRUE]
    ELSE IF high /\ lpos.dist_bottom_valid
    THEN [observable |-> observable, high |-> FALSE,
          factor |-> _set_hysteresis_factor(NOMINAL_FACTOR), set |-> TRUE]
    ELSE [observable |-> observable, high |-> high, factor |-> factor, set |-> FALSE]

\* --------------------------------------------------------- publish step
\* bug: zero passes for a ceiling
AltMax_ZeroIsCeiling(max_altitude) == IF max_altitude >= 0 THEN max_altitude ELSE INFINITY_F

\* line 127: _get_max_altitude() > 0.0f ? _get_max_altitude() : INFINITY
AltMax(max_altitude) == IF max_altitude > 0 THEN max_altitude ELSE INFINITY_F

\* line 137: fabsf(a - b) > FLT_EPSILON; inf - inf is NaN and compares false
AltMaxChanged(a, b) ==
    IF a = INFINITY_F /\ b = INFINITY_F THEN FALSE
    ELSE IF a = INFINITY_F \/ b = INFINITY_F THEN TRUE
    ELSE (IF a >= b THEN a - b ELSE b - a) > ALT_EPSILON

\* lines 123-128: the snapshot this cycle would report (timestamp filled on publish)
Snapshot(g, alt_max) ==
    [landed |-> g["landed"].state,
     freefall |-> g["freefall"].state,
     maybe_landed |-> g["maybe_landed"].state,
     ground_contact |-> g["ground_contact"].state,
     in_ground_effect |-> g["ground_effect"].state,
     alt_max |-> alt_max]

\* the six reportable fields of a published snapshot
SixFields(ld) ==
    [landed |-> ld.landed, freefall |-> ld.freefall, maybe_landed |-> ld.maybe_landed,
     ground_contact |-> ld.ground_contact, in_ground_effect |-> ld.in_ground_effect,
     alt_max |-> ld.alt_max]

\* bug: the period test compares against a single tick instead of 1_s
PublishNeeded_ShortPeriod(ld, elapsed, new) ==
    \/ elapsed >= ONE_S - 1
    \/ SixFields(ld) # SixFields(new)

\* bug: the ground effect flag is left out of the change test
PublishNeeded_NoGroundEffect(ld, elapsed, new) ==
    \/ elapsed >= ONE_S
    \/ ld.landed # new.landed
    \/ ld.freefall # new.freefall
    \/ ld.maybe_landed # new.maybe_landed
    \/ ld.ground_contact # new.ground_contact
    \/ AltMaxChanged(ld.alt_max, new.alt_max)

\* lines 131-137: publish at 1 Hz, very first time, or when the result has changed
PublishNeeded(ld, elapsed, new) ==
    \/ elapsed >= ONE_S
    \/ ld.landed # new.landed
    \/ ld.freefall # new.freefall
    \/ ld.maybe_landed # new.maybe_landed
    \/ ld.ground_contact # new.ground_contact
    \/ ld.in_ground_effect # new.in_ground_effect
    \/ AltMaxChanged(ld.alt_max, new.alt_max)

\* bug: every not-landed publish marks a take-off
TakeoffMark_EveryPublish(publish, ld, new, takeoff_time, now_us) ==
    IF publish /\ ~new.landed THEN now_us ELSE takeoff_time

\* lines 139-142: only set take off time once, until disarming
TakeoffMark(publish, ld, new, takeoff_time, now_us) ==
    IF publish /\ ~new.landed /\ ld.landed /\ takeoff_time = 0
    THEN now_us
    ELSE takeoff_time

\* lines 144-150
Published(new, stamp) ==
    [landed |-> new.landed, freefall |-> new.freefall,
     maybe_landed |-> new.maybe_landed, ground_contact |-> new.ground_contact,
     alt_max |-> new.alt_max, in_ground_effect |-> new.in_ground_effect,
     timestamp |-> stamp]

\* ------------------------------------------------ flight time bookkeeping
\* bug: the take-off guard is missing, every disarm transition is accounted
DisarmAccounting_NoTakeoffGuard(takeoff_time, armed, previous_armed) ==
    ~armed /\ previous_armed

\* bug: the two armed flags are swapped, the arming transition is accounted
DisarmAccounting_OnArming(takeoff_time, armed, previous_armed) ==
    takeoff_time # 0 /\ armed /\ ~previous_armed

\* line 156
DisarmAccounting(takeoff_time, armed, previous_armed) ==
    takeoff_time # 0 /\ ~armed /\ previous_armed

\* bug: the take-off time is not subtracted
AddFlightTime_SinceBoot(total, now_us, takeoff_time) ==
    (total + now_us) % WordMod

\* bug: the flight is assigned, not added
AddFlightTime_Overwrite(total, now_us, takeoff_time) ==
    (now_us - takeoff_time) % WordMod

\* line 157, uint64_t arithmetic
AddFlightTime(total, now_us, takeoff_time) ==
    (total + (now_us - takeoff_time)) % WordMod

\* lines 160-168: the two halves as committed to the parameter store
SplitHalves(total) == [high |-> HighHalf(total), low |-> LowHalf(total)]

\* bug: the commit that notifies is used
commit_no_notification_Notifying(updated) == TRUE

\* lines 163 and 168: committing the halves leaves the update flag of the
\* parameter bus as it is
commit_no_notification(updated) == updated

\* bug: the previous armed state is only refreshed in the publish block
PreviousArmed_OnPublish(armed, previous, publish) == IF publish THEN armed ELSE previous

\* line 171, after the publish block and the bookkeeping
PreviousArmed(armed, previous, publish) == armed

\* ------------------------------------------------------------ scheduling
\* bug: the back-up schedule is not pushed
ScheduleDelayed_Dropped(pending) == pending

\* lines 60 and 67: ScheduleDelayed(50_ms), a schedule is pending afterwards
ScheduleDelayed(pending) == TRUE

\* bug: the schedule is left armed on exit
ScheduleClear_Missing(pending) == pending

\* line 176: ScheduleClear()
ScheduleClear(pending) == FALSE

\* --------------------------------------------------------------- inputs
\* what one cycle finds on its channels and gets from the raw state provider
NoArmedUpdate == [updated |-> FALSE, armed |-> FALSE]
ArmedUpdates == {[updated |-> TRUE, armed |-> b] : b \in BOOLEAN}

NoLposUpdate == [updated |-> FALSE, dist_bottom_sensor_bitfield |-> 0, dist_bottom_valid |-> FALSE]
LposUpdates ==
    {[updated |-> TRUE, dist_bottom_sensor_bitfield |-> b, dist_bottom_valid |-> v] :
        b \in {DIST_BOTTOM_SENSOR_RANGE, DIST_BOTTOM_SENSOR_FLOW}, v \in BOOLEAN}

\* what a cycle finds on the vehicle_acceleration or the vehicle_status channel:
\* nothing, or a new sample (a sample is modelled by its timestamp, the cycle's time)
NoSample == [updated |-> FALSE]
SampleUpdates == {NoSample, [updated |-> TRUE]}

\* bug: the local sample is stored whether or not the channel delivered one
Cached_Unconditional(cached, updated, value) == value

\* lines 84-95: a cached value is overwritten only if its channel has an update
Cached(cached, updated, value) == IF updated THEN value ELSE cached

\* a raw judgment vector, given by the set of judgments that are true
Raw(trueOnes) == [g \in Gates |-> g \in trueOnes]
OnGround == Raw({"landed", "maybe_landed", "ground_contact"})
InAir == Raw({})
RawJudgments ==
    {OnGround, InAir, Raw({"freefall"}), Raw({"ground_effect"}),
     Raw({"ground_contact"}), Raw({"ground_contact", "maybe_landed"})}

\* _get_max_altitude(): none, two values within FLT_EPSILON of each other, one apart
MaxAltitudes == {0, 5, 6, 8}

\* clock ticks between the reads of lines 115 and 131, and of lines 131 and 150
Drifts == {<<0, 0>>, <<1, 0>>, <<0, 1>>}
NoDrift == {<<0, 0>>}

\* bug: the landed and maybe-landed judgments feed each other's gate
GateInput_Crossed(g, raw) ==
    raw[IF g = "landed" THEN "maybe_landed"
        ELSE IF g = "maybe_landed" THEN "landed" ELSE g]

\* lines 117-121: the raw judgment each gate is advanced with
GateInput(g, raw) == raw[g]

\* ----------------------------------------------------------------- Init
\* the member initialisers of the class declaration (LandDetector.h): the
\* vehicle starts out reported as landed, with no ceiling published yet
InitialGates ==
    [g \in Gates |-> NewGate(g \in {"landed", "maybe_landed", "ground_contact"})]
InitialLandDetected ==
    [landed |-> TRUE, freefall |-> FALSE, maybe_landed |-> TRUE,
     ground_contact |-> TRUE, alt_max |-> ALT_MAX_INIT,
     in_ground_effect |-> FALSE, timestamp |-> 0]

\* the state after construction, the parameter store holding one of P
InitWith(P) ==
    /\ clock = 1
    /\ pc = "init"
    /\ scheduled = FALSE
    /\ callback_registered = FALSE
    /\ exit_requested = FALSE
    /\ param_updated = FALSE
    /\ params \in P
    /\ _total_flight_time = 0
    /\ _takeoff_time = 0
    /\ _armed = FALSE
    /\ _previous_armed_state = FALSE
    /\ _vehicle_local_position = [dist_bottom_sensor_bitfield |-> 0, dist_bottom_valid |-> FALSE]
    /\ _dist_bottom_is_observable = FALSE
    /\ _high_hysteresis_active = FALSE
    /\ hysteresis_factor = NOMINAL_FACTOR
    /\ gates = InitialGates
    /\ _land_detected = InitialLandDetected
    /\ _acceleration = 0
    /\ _vehicle_status = 0
    /\ airborne_time = 0
    /\ differs_since = [g \in Gates |-> 0]
    /\ cycle = [now_us |-> 0, max_altitude |-> 0, published |-> FALSE,
                refreshed |-> FALSE, accounted |-> FALSE, same_fields |-> FALSE,
                flipped |-> {}, raw |-> OnGround, factor_set |-> FALSE]

\* ------------------------------------------------------------------ start
\* lines 58-62
Start ==
    /\ pc = "init"
    /\ pc' = "idle"
    /\ scheduled' = ScheduleDelayed(scheduled)
    /\ callback_registered' = TRUE
    /\ UNCHANGED << clock, exit_requested, param_updated, params, _total_flight_time,
                    _takeoff_time, _armed, _previous_armed_state, _vehicle_local_position,
                    _dist_bottom_is_observable, _high_hysteresis_active, hysteresis_factor,
                    gates, _land_detected, differs_since, cycle,
                    _acceleration, _vehicle_status, airborne_time >>

\* -------------------------------------------------------------------- Run
\* lines 64-179, one whole cycle on input in
Run(in) ==
    /\ clock + in.drift[1] + in.drift[2] <= MaxTime
    /\ \E pending \in {ScheduleDelayed(IF in.timer THEN FALSE ELSE scheduled)},
           refresh \in {RefreshNeeded(param_updated, _land_detected.timestamp)},
           armed1 \in {Cached(_armed, in.armed.updated, in.armed.armed)},
           lpos1 \in {Cached(_vehicle_local_position, in.lpos.updated,
                             [dist_bottom_sensor_bitfield |-> in.lpos.dist_bottom_sensor_bitfield,
                              dist_bottom_valid |-> in.lpos.dist_bottom_valid])},
           now_us \in {clock} :
        \E total0 \in {RefreshedTotal(refresh, _total_flight_time, params)},
           trk \in {DistBottomTracker(_dist_bottom_is_observable, _high_hysteresis_active,
                                      hysteresis_factor, lpos1)},
           read131 \in {clock + in.drift[1]} :
        \E gates1 \in {[g \in Gates |->
                          set_state_and_update(gates[g], GateInput(g, in.raw), now_us,
                                               Threshold(g, GateInput(g, in.raw), trk.factor))]},
           read150 \in {read131 + in.drift[2]} :
        \E new \in {Snapshot(gates1, AltMax(in.max_altitude))} :
        \E publish \in {PublishNeeded(_land_detected, read131 - _land_detected.timestamp, new)} :
        \E takeoff1 \in {TakeoffMark(publish, _land_detected, new, _takeoff_time, now_us)} :
        \E account \in {DisarmAccounting(takeoff1, armed1, _previous_armed_state)} :
        \E total1 \in {IF account THEN AddFlightTime(total0, now_us, takeoff1) ELSE total0} :
            /\ clock' = read150
            /\ param_updated' = IF account THEN commit_no_notification(FALSE) ELSE FALSE
            /\ _armed' = armed1
            /\ _acceleration' =
                  Cached(_acceleration, in.acceleration.updated, now_us)
            /\ _vehicle_status' = Cached(_vehicle_status, in.status.updated, now_us)
            /\ airborne_time' =
                  IF ~_previous_armed_state THEN 0
                  ELSE airborne_time
                         + (IF gates["landed"].state THEN 0 ELSE now_us - cycle.now_us)
            /\ _vehicle_local_position' = lpos1
            /\ _dist_bottom_is_observable' = trk.observable
            /\ _high_hysteresis_active' = trk.high
            /\ hysteresis_factor' = trk.factor
            /\ gates' = gates1
            /\ differs_since' =
                  [g \in Gates |->
                     IF in.raw[g] = gates[g].state \/ gates1[g].state # gates[g].state THEN 0
                     ELSE IF differs_since[g] = 0 THEN now_us
                     ELSE differs_since[g]]
            /\ _land_detected' = IF publish THEN Published(new, read150) ELSE _land_detected
            /\ _takeoff_time' = IF account THEN 0 ELSE takeoff1
            /\ _total_flight_time' = total1
            /\ params' = IF account THEN SplitHalves(total1) ELSE params
            /\ _previous_armed_state' = PreviousArmed(armed1, _previous_armed_state, publish)
            /\ cycle' = [now_us |-> now_us, max_altitude |-> in.max_altitude,
                         published |-> publish, refreshed |-> refresh, accounted |-> account,
                         same_fields |-> (new = SixFields(_land_detected)),
                         flipped |-> {g \in Gates : gates1[g].state # gates[g].state},
                         raw |-> in.raw, factor_set |-> trk.set]
            /\ IF exit_requested
               THEN /\ scheduled' = ScheduleClear(pending)
                    /\ callback_registered' = FALSE
                    /\ pc' = "exited"
               ELSE /\ scheduled' = pending
                    /\ UNCHANGED callback_registered
                    /\ pc' = "ran"
            /\ UNCHANGED exit_requested

\* the inputs of a cycle, every channel having its own set of possible finds
AllInputs(A, X, L, S, R, M, D) ==
    [armed : A, acceleration : X, lpos : L, status : S, raw : R, max_altitude : M,
     drift : D]

\* the same with the acceleration and vehicle status channels silent
Inputs(A, L, R, M, D) == AllInputs(A, {NoSample}, L, {NoSample}, R, M, D)

\* input in, with what invoked the cycle: the schedule expiring, or the callback
Triggered(in, timer) ==
    [armed |-> in.armed, acceleration |-> in.acceleration, lpos |-> in.lpos,
     status |-> in.status, raw |-> in.raw, max_altitude |-> in.max_altitude,
     drift |-> in.drift, timer |-> timer]

\* the back-up schedule of line 60 / 67 expires
RunTimer(I) == scheduled /\ \E in \in I : Run(Triggered(in, TRUE))

\* the local position callback of line 61 fires: a new report is there
RunCallback(I) ==
    callback_registered /\ \E in \in I : in.lpos.updated /\ Run(Triggered(in, FALSE))

\* ----------------------------------------------------------- environment
Tick ==
    /\ pc # "exited"
    /\ clock < MaxTime
    /\ clock' = clock + 1
    /\ pc' = IF pc = "init" THEN "init" ELSE "idle"
    /\ UNCHANGED << scheduled, callback_registered, exit_requested, param_updated,
                    params, _total_flight_time, _takeoff_time, _armed,
                    _previous_armed_state, _vehicle_local_position,
                    _dist_bottom_is_observable, _high_hysteresis_active,
                    hysteresis_factor, gates, _land_detected, differs_since, cycle,
                    _acceleration, _vehicle_status, airborne_time >>

\* somebody else sets parameters (possibly the flight time halves) and notifies
ParamSetExternal(P) ==
    /\ pc \in {"idle", "ran"}
    /\ ~param_updated
    /\ params' \in P \cup {params}
    /\ param_updated' = TRUE
    /\ pc' = "idle"
    /\ UNCHANGED << clock, scheduled, callback_registered, exit_requested,
                    _total_flight_time, _takeoff_time, _armed, _previous_armed_state,
                    _vehicle_local_position, _dist_bottom_is_observable,
                    _high_hysteresis_active, hysteresis_factor, gates, _land_detected,
                    differs_since, cycle,
                    _acceleration, _vehicle_status, airborne_time >>

\* the module is asked to stop
RequestExit ==
    /\ pc \in {"idle", "ran"}
    /\ ~exit_requested
    /\ exit_requested' = TRUE
    /\ pc' = "idle"
    /\ UNCHANGED << clock, scheduled, callback_registered, param_updated, params,
                    _total_flight_time, _takeoff_time, _armed, _previous_armed_state,
                    _vehicle_local_position, _dist_bottom_is_observable,
                    _high_hysteresis_active, hysteresis_factor, gates, _land_detected,
                    differs_since, cycle,
                    _acceleration, _vehicle_status, airborne_time >>

\* -------------------------------------------------------- specifications
\* Every specification runs the same Start, Run and environment actions; they
\* differ in which channels deliver updates and which judgments the raw state
\* provider returns, so that each part of Run is explored over all of its own
\* inputs while the channels it does not read stay silent.
ZeroHalves == {[high |-> 0, low |-> 0]}
AllHalves == [high : Int32, low : Int32]

\* publishing: every raw judgment and altitude, the other channels silent
PublishInputs == Inputs({NoArmedUpdate}, {NoLposUpdate}, RawJudgments, MaxAltitudes, Drifts)
InitPublish == InitWith(ZeroHalves)
NextPublish == Start \/ Tick \/ RunTimer(PublishInputs)
SpecPublish == InitPublish /\ [][NextPublish]_vars

\* debouncing and sensitivity: raw judgments, position reports moving the factor
GateInputs ==
    Inputs({NoArmedUpdate}, {NoLposUpdate} \cup LposUpdates, RawJudgments, {0}, NoDrift)
InitGates == InitWith(ZeroHalves)
NextGates == Start \/ Tick \/ RunTimer(GateInputs) \/ RunCallback(GateInputs)
SpecGates == InitGates /\ [][NextGates]_vars

\* flight time: arming, take-off and landing, parameters set from outside
SomeHalves ==
    {[high |-> 0, low |-> 0], [high |-> 0, low |-> -1], [high |-> 1, low |-> -2]}
FlightInputs ==
    Inputs({NoArmedUpdate} \cup ArmedUpdates, {NoLposUpdate}, {OnGround, InAir}, {0}, Drifts)
InitFlight == InitWith(SomeHalves)
NextFlight == Start \/ Tick \/ RunTimer(FlightInputs) \/ ParamSetExternal(SomeHalves)
SpecFlight == InitFlight /\ [][NextFlight]_vars

\* scheduling and shutdown: the back-up schedule, the position callback and a
\* shutdown request at any moment
FlowReport ==
    [updated |-> TRUE, dist_bottom_sensor_bitfield |-> DIST_BOTTOM_SENSOR_FLOW,
     dist_bottom_valid |-> TRUE]
ScheduleInputs ==
    Inputs({NoArmedUpdate} \cup ArmedUpdates, {NoLposUpdate, FlowReport},
           {OnGround, InAir}, {0}, NoDrift)
InitSchedule == InitWith(ZeroHalves)
NextSchedule ==
    Start \/ Tick \/ RunTimer(ScheduleInputs) \/ RunCallback(ScheduleInputs) \/ RequestExit
SpecSchedule == InitSchedule /\ [][NextSchedule]_vars

\* the work queue runs the item when its pending schedule expires (a delay of
\* 50 ms): weak fairness of the timer-driven cycle, and of nothing else -- the
\* callback, the clock and the shutdown request may or may not happen
\* arming, disarming, taking off and landing, with nothing else going on
ArmingInputs ==
    Inputs({NoArmedUpdate} \cup ArmedUpdates, {NoLposUpdate}, {OnGround, InAir}, {0}, NoDrift)
InitArming == InitWith(ZeroHalves)
NextArming == Start \/ Tick \/ RunTimer(ArmingInputs)
SpecArming == InitArming /\ [][NextArming]_vars

\* the four telemetry channels, each with or without news, on the ground
TelemetryInputs ==
    AllInputs({NoArmedUpdate} \cup ArmedUpdates, SampleUpdates, {NoLposUpdate, FlowReport},
              SampleUpdates, {OnGround}, {0}, NoDrift)
InitTelemetry == InitWith(ZeroHalves)
NextTelemetry == Start \/ Tick \/ RunTimer(TelemetryInputs) \/ RunCallback(TelemetryInputs)
SpecTelemetry == InitTelemetry /\ [][NextTelemetry]_vars

TimerInputs == Inputs({NoArmedUpdate}, {NoLposUpdate, FlowReport}, {OnGround, InAir}, {0}, NoDrift)
NextTimer ==
    Start \/ Tick \/ RunTimer(TimerInputs) \/ RunCallback(TimerInputs) \/ RequestExit
SpecScheduleFair ==
    InitSchedule /\ [][NextTimer]_vars /\ WF_vars(RunTimer(TimerInputs))

\* ================================================================ claims
\* a step that is one cycle of Run, and a state right after one
RunStep == pc' \in {"ran", "exited"}
CycleEnd == pc \in {"ran", "exited"}

\* the five flags of a snapshot against the gate outputs
FlagsOf(g) ==
    [landed |-> g["landed"].state, freefall |-> g["freefall"].state,
     maybe_landed |-> g["maybe_landed"].state,
     ground_contact |-> g["ground_contact"].state,
     in_ground_effect |-> g["ground_effect"].state]
FlagsIn(ld) ==
    [landed |-> ld.landed, freefall |-> ld.freefall, maybe_landed |-> ld.maybe_landed,
     ground_contact |-> ld.ground_contact, in_ground_effect |-> ld.in_ground_effect]

\* alt_max as the provider's value stands for it
Ceiling(max_altitude) == IF max_altitude > 0 THEN max_altitude ELSE INFINITY_F

\* C1: a cycle that finds none of the six reportable fields different from the
\* last published snapshot publishes only when at least 1 s has passed since
\* the last published timestamp, so the two timestamps are at least 1 s apart.
C1_PublishThrottled ==
    [][(/\ RunStep
        /\ cycle'.published
        /\ FlagsOf(gates') = FlagsIn(_land_detected)
        /\ Ceiling(cycle'.max_altitude) = _land_detected.alt_max)
       => _land_detected'.timestamp - _land_detected.timestamp >= ONE_S]_vars

\* a periodic publish: nothing had changed and the snapshot went out again
C1_Witness ==
    /\ CycleEnd
    /\ cycle.published
    /\ cycle.same_fields
    /\ _land_detected.timestamp > ONE_S

\* C2 as claimed: any difference of a gate output or of alt_max from the last
\* published snapshot is published in the same cycle, and after every cycle
\* the snapshot's five flags are the gate outputs.
C2_AnyDifferencePublished ==
    /\ [](CycleEnd => FlagsIn(_land_detected) = FlagsOf(gates))
    /\ [][(/\ RunStep
           /\ \/ FlagsOf(gates') # FlagsIn(_land_detected)
              \/ Ceiling(cycle'.max_altitude) # _land_detected.alt_max)
          => cycle'.published]_vars

\* more than FLT_EPSILON apart (one of them infinite and the other not counts)
BeyondEpsilon(a, b) ==
    \/ (a = INFINITY_F) # (b = INFINITY_F)
    \/ /\ a # INFINITY_F
       /\ b # INFINITY_F
       /\ (a - b > ALT_EPSILON \/ b - a > ALT_EPSILON)

\* C2 amended: a difference of a gate output, or of alt_max by more than
\* FLT_EPSILON, from the last published snapshot is published in the same
\* cycle, and after every cycle the snapshot's five flags are the gate outputs.
C2_ChangePublished ==
    /\ [](CycleEnd => FlagsIn(_land_detected) = FlagsOf(gates))
    /\ [][(/\ RunStep
           /\ \/ FlagsOf(gates') # FlagsIn(_land_detected)
              \/ BeyondEpsilon(Ceiling(cycle'.max_altitude), _land_detected.alt_max))
          => cycle'.published]_vars

\* the ground effect flag changed before a periodic publish was due and went
\* out in the same cycle
C2_Witness ==
    /\ CycleEnd
    /\ cycle.published
    /\ ~cycle.same_fields
    /\ _land_detected.in_ground_effect
    /\ cycle.now_us - 1 < ONE_S

\* C10: a published snapshot carries the provider's maximum altitude of that
\* cycle if it is positive and +infinity otherwise; a published alt_max below
\* the previously published one is a positive value the provider reported.
C10_AltMaxPassThrough ==
    /\ [](CycleEnd /\ cycle.published
            => _land_detected.alt_max = Ceiling(cycle.max_altitude))
    /\ [][(/\ RunStep
           /\ cycle'.published
           /\ _land_detected.timestamp # 0
           /\ _land_detected'.alt_max < _land_detected.alt_max)
          => /\ cycle'.max_altitude > 0
             /\ cycle'.max_altitude = _land_detected'.alt_max]_vars

\* a finite ceiling was published after an infinite one
C10_Witness ==
    /\ CycleEnd
    /\ cycle.published
    /\ cycle.max_altitude > 0
    /\ _land_detected.alt_max = cycle.max_altitude
    /\ _land_detected.timestamp > 1

\* ---------------------------------------------------------------- gates
\* since when the raw judgment of gate g has differed from its output without
\* a break, as the cycle that ends at the primed state observes it
DifferingSince(g) ==
    IF differs_since[g] = 0 THEN cycle'.now_us ELSE differs_since[g]

\* C3: a gate output changes only in a cycle whose raw judgment is the new
\* output and only after the raw judgment has differed from the output, with
\* no agreeing observation in between, for at least the hysteresis factor
\* times the enter or exit delay of that direction.
C3_Debounce ==
    [][RunStep =>
        \A g \in Gates :
            gates'[g].state # gates[g].state =>
                /\ cycle'.raw[g] = gates'[g].state
                /\ cycle'.now_us - DifferingSince(g)
                     >= ScaleFactor(g, hysteresis_factor')
                          * (IF gates'[g].state THEN TimeFromFalse(g) ELSE TimeFromTrue(g))]_vars

\* landed is entered again under the high factor, after the tripled dwell
C3_Witness ==
    /\ CycleEnd
    /\ "landed" \in cycle.flipped
    /\ gates["landed"].state
    /\ hysteresis_factor = HIGH_FACTOR

\* -------------------------------------------------------- observability
\* C7: a cycle that sees the ranging-sensor bit in the position report ends
\* with _dist_bottom_is_observable true, and no step ever makes it false again.
C7_LatchOneWay ==
    [][/\ (RunStep /\ RangeBit(_vehicle_local_position')) => _dist_bottom_is_observable'
       /\ _dist_bottom_is_observable => _dist_bottom_is_observable']_vars

\* latched, and the report no longer carries the ranging-sensor bit
C7_Witness ==
    /\ CycleEnd
    /\ _dist_bottom_is_observable
    /\ _vehicle_local_position.dist_bottom_sensor_bitfield = DIST_BOTTOM_SENSOR_FLOW

\* C8: a cycle that starts with _dist_bottom_is_observable false leaves the
\* hysteresis factor alone and _high_hysteresis_active false, whatever
\* dist_bottom_valid is; while not latched the factor is the nominal one.
C8_NoEscalationBeforeLatch ==
    /\ [](~_dist_bottom_is_observable =>
            ~_high_hysteresis_active /\ hysteresis_factor = NOMINAL_FACTOR)
    /\ [][(RunStep /\ ~_dist_bottom_is_observable) =>
            /\ hysteresis_factor' = hysteresis_factor
            /\ ~cycle'.factor_set
            /\ ~_high_hysteresis_active']_vars

\* the latching cycle itself, with an invalid distance to ground
C8_Witness ==
    /\ CycleEnd
    /\ _dist_bottom_is_observable
    /\ ~_vehicle_local_position.dist_bottom_valid
    /\ ~_high_hysteresis_active
    /\ hysteresis_factor = NOMINAL_FACTOR

\* C9: a cycle that starts with _dist_bottom_is_observable true advances the
\* gates with factor 3 and _high_hysteresis_active true if dist_bottom_valid
\* is false, with factor 1 and the flag false if it is true; the factor is
\* set exactly in the cycles where the flag changes.
C9_SensitivityFollowsValidity ==
    [][(RunStep /\ _dist_bottom_is_observable) =>
        /\ IF _vehicle_local_position'.dist_bottom_valid
           THEN hysteresis_factor' = NOMINAL_FACTOR /\ ~_high_hysteresis_active'
           ELSE hysteresis_factor' = HIGH_FACTOR /\ _high_hysteresis_active'
        /\ cycle'.factor_set <=> (_high_hysteresis_active' # _high_hysteresis_active)]_vars

\* validity came back after an escalation: the factor is nominal again
C9_Witness ==
    /\ CycleEnd
    /\ _dist_bottom_is_observable
    /\ cycle.factor_set
    /\ ~_high_hysteresis_active
    /\ hysteresis_factor = NOMINAL_FACTOR
    /\ _vehicle_local_position.dist_bottom_valid

\* ----------------------------------------------------------- flight time
\* the cycle that ends at the primed state sees armed go from true to false
DisarmTransition == _previous_armed_state /\ ~_armed'

\* the debounced landed output goes from true to false / stays false
LandedFalls == gates["landed"].state /\ ~gates'["landed"].state
StaysNotLanded == ~gates["landed"].state /\ ~gates'["landed"].state

\* C4 as claimed: without a disarm transition, the cycle in which debounced
\* landed goes from true to false sets _takeoff_time to the time of that
\* cycle, and a later not-landed cycle does not change it.
C4_TakeoffSetOnFirstFalse ==
    [][(RunStep /\ ~DisarmTransition) =>
        /\ LandedFalls => _takeoff_time' = cycle'.now_us
        /\ StaysNotLanded => _takeoff_time' = _takeoff_time]_vars

\* C4 amended: without a disarm transition, the cycle in which debounced
\* landed goes from true to false sets _takeoff_time to the time of that cycle
\* if no take-off is tracked and leaves it alone if one is tracked already; a
\* later not-landed cycle does not change it.
C4_TakeoffOneShot ==
    [][(RunStep /\ ~DisarmTransition) =>
        /\ (LandedFalls /\ _takeoff_time = 0) => _takeoff_time' = cycle'.now_us
        /\ (LandedFalls /\ _takeoff_time # 0) => _takeoff_time' = _takeoff_time
        /\ StaysNotLanded => _takeoff_time' = _takeoff_time]_vars

\* armed and in the air, several ticks after the take-off that was marked
C4_Witness ==
    /\ CycleEnd
    /\ _armed
    /\ ~gates["landed"].state
    /\ cycle.flipped = {}
    /\ cycle.published
    /\ _takeoff_time # 0
    /\ cycle.now_us >= _takeoff_time + 2

\* the accumulator as the bookkeeping of a cycle finds it: read back from the
\* parameters if this cycle refreshes them, else as the last cycle left it
TotalBeforeBookkeeping ==
    IF param_updated \/ _land_detected.timestamp = 0
    THEN (((params.high % HalfMod) * HalfMod) + (params.low % HalfMod))
    ELSE _total_flight_time

\* C5: a cycle with _previous_armed_state true, armed false and a take-off
\* tracked adds exactly now - _takeoff_time to _total_flight_time (uint64_t
\* arithmetic, on the value the bookkeeping finds) and unsets _takeoff_time,
\* whether or not the cycle publishes.
C5_DisarmAccounting ==
    [][(RunStep /\ DisarmTransition /\ _takeoff_time # 0) =>
        /\ _total_flight_time'
             = (TotalBeforeBookkeeping + (cycle'.now_us - _takeoff_time)) % WordMod
        /\ _takeoff_time' = 0
        /\ cycle'.accounted]_vars

\* a disarm cycle that did not publish and added a positive flight time
C5_Witness ==
    /\ CycleEnd
    /\ cycle.accounted
    /\ ~cycle.published
    /\ ~cycle.refreshed
    /\ _takeoff_time = 0
    /\ _total_flight_time >= 2

\* the two persisted halves read as one number, high half first
Concatenated(p) == ((p.high % HalfMod) * HalfMod) + (p.low % HalfMod)

\* C6: at the end of every cycle _total_flight_time is the concatenation of
\* the two persisted halves.
C6_RoundTrip ==
    CycleEnd => _total_flight_time = Concatenated(params)

\* a disarm wrote two halves with the top bit of the low half set
C6_Witness ==
    /\ CycleEnd
    /\ cycle.accounted
    /\ params.low < 0
    /\ params.high > 0

\* ------------------------------------------------- scheduling, shutdown
\* C11: from start() until the cycle that exits, a schedule is pending between
\* the cycles and at the end of every cycle, and whenever the item sits
\* between two cycles, another cycle runs eventually -- with the timer alone,
\* the position callback is under no obligation to fire.
C11_TimerKeepsCycling ==
    /\ [](pc \in {"idle", "ran"} => scheduled)
    /\ (pc = "idle" ~> CycleEnd)

\* a cycle late in the run that found no position report ever: the timer ran it
C11_Witness ==
    /\ pc = "ran"
    /\ scheduled
    /\ ~exit_requested
    /\ cycle.now_us = MaxTime
    /\ _vehicle_local_position.dist_bottom_sensor_bitfield = 0

\* C12: a cycle exits exactly if shutdown was requested before it; that cycle
\* still does the whole processing (gates and snapshot agree, a due disarm is
\* accounted, the previous armed state is refreshed); after it no schedule is
\* pending, no callback is registered, and no step changes anything.
C12_CleanShutdown ==
    /\ [](pc = "exited" => ~scheduled /\ ~callback_registered)
    /\ [][RunStep => ((pc' = "exited") <=> exit_requested)]_vars
    /\ [][(RunStep /\ exit_requested) =>
            /\ cycle'.now_us = clock
            /\ FlagsIn(_land_detected') = FlagsOf(gates')
            /\ (DisarmTransition /\ _takeoff_time # 0) =>
                  (cycle'.accounted /\ _takeoff_time' = 0)
            /\ _previous_armed_state' = _armed']_vars
    /\ [][pc # "exited"]_vars

\* the exiting cycle published a change and accounted a disarm
C12_Witness ==
    /\ pc = "exited"
    /\ cycle.published
    /\ cycle.accounted
    /\ cycle.flipped # {}
    /\ _total_flight_time > 0

\* ------------------------------------------------------------- telemetry
\* C13: whatever a cycle finds on the four channels, each channel without an
\* update leaves its cached value (armed, acceleration, local position,
\* vehicle status) as it was, whether or not the other channels have one, and
\* the cycle runs to its end.
C13_StaleInputsPersist ==
    [][\A in \in TelemetryInputs, timer \in BOOLEAN :
         Run(Triggered(in, timer)) =>
            /\ ~in.armed.updated => _armed' = _armed
            /\ ~in.acceleration.updated => _acceleration' = _acceleration
            /\ ~in.lpos.updated => _vehicle_local_position' = _vehicle_local_position
            /\ ~in.status.updated => _vehicle_status' = _vehicle_status
            /\ pc' = "ran"
            /\ cycle'.now_us = clock]_vars

\* the latest cycle took a vehicle status sample and kept an acceleration
\* sample, the armed flag and a position report of earlier cycles
C13_Witness ==
    /\ pc = "ran"
    /\ _vehicle_status = cycle.now_us
    /\ _acceleration > 0
    /\ _acceleration < cycle.now_us
    /\ _armed
    /\ _vehicle_local_position.dist_bottom_valid

\* ------------------------------------------------ flight time, continued
\* the take-off time the bookkeeping of a cycle finds: the tracked one, or the
\* time of this cycle if its publish block has just marked the take-off
TakeoffAtBookkeeping == IF _takeoff_time # 0 THEN _takeoff_time ELSE cycle'.now_us

\* C14 as claimed: a cycle that accounts a disarm adds the time for which the
\* vehicle was armed with the debounced landed output false since it was
\* armed, and nothing else.
C14_AirborneTimeAdded ==
    [][(RunStep /\ cycle'.accounted) =>
        _total_flight_time' = (TotalBeforeBookkeeping + airborne_time') % WordMod]_vars

\* C14 amended: a cycle that accounts a disarm adds the time from the take-off
\* mark to this cycle, whether the vehicle was in the air, on the ground again
\* or not yet armed in between, and nothing else.
C14_TimeSinceTakeoffAdded ==
    [][(RunStep /\ cycle'.accounted) =>
        _total_flight_time'
          = (TotalBeforeBookkeeping + (cycle'.now_us - TakeoffAtBookkeeping)) % WordMod]_vars

\* a disarm was accounted for more than the time in the air while armed: the
\* vehicle had landed again before it was disarmed
C14_Witness ==
    /\ CycleEnd
    /\ cycle.accounted
    /\ gates["landed"].state
    /\ airborne_time > 0
    /\ _total_flight_time > airborne_time

\* C15: a tracked take-off time stays as it is in every step but a cycle that
\* sees the disarm transition, so it is set at most once between arming and
\* disarming; every cycle that sees the disarm transition ends with it unset,
\* and it never becomes unset in any other step.
C15_TakeoffLifecycle ==
    /\ [][_takeoff_time # 0 =>
            \/ _takeoff_time' = _takeoff_time
            \/ RunStep /\ DisarmTransition /\ _takeoff_time' = 0]_vars
    /\ [][(RunStep /\ DisarmTransition) => _takeoff_time' = 0]_vars

\* a second take-off of the same arming, well after the first one that is
\* still the tracked one
C15_Witness ==
    /\ CycleEnd
    /\ _armed
    /\ _previous_armed_state
    /\ "landed" \in cycle.flipped
    /\ ~gates["landed"].state
    /\ _takeoff_time # 0
    /\ _takeoff_time + 2 <= cycle.now_us

\* C16: every cycle ends with _previous_armed_state equal to armed, so a cycle
\* starts with the armed flag the cycle before it saw, and a cycle that
\* accounts a disarm started with it true and ends with it false: the next
\* cycle cannot account the same disarm again.
C16_PreviousArmedTracksArmed ==
    /\ [](CycleEnd => _previous_armed_state = _armed)
    /\ [][RunStep => _previous_armed_state' = _armed']_vars
    /\ [][(RunStep /\ cycle'.accounted) =>
            (_previous_armed_state /\ ~_previous_armed_state')]_vars
    /\ [][(RunStep /\ cycle.accounted /\ pc = "ran") => ~cycle'.accounted]_vars

\* the cycle right after an accounted disarm, still disarmed and unpublished
C16_Witness ==
    /\ pc = "ran"
    /\ ~cycle.accounted
    /\ ~cycle.published
    /\ ~_armed
    /\ ~_previous_armed_state
    /\ _takeoff_time = 0
    /\ _total_flight_time > 0

\* C20: a cycle that publishes landed going from true to false with no
\* take-off tracked and sees the disarm transition accounts a flight of zero
\* length: the accumulator is what the bookkeeping found and the take-off time
\* ends unset; an unset take-off time is only ever set by a cycle that
\* publishes landed going from true to false.
C20_TakeoffAndDisarmTogether ==
    /\ [][(RunStep /\ LandedFalls /\ _takeoff_time = 0 /\ DisarmTransition) =>
            /\ cycle'.published
            /\ cycle'.accounted
            /\ _total_flight_time' = TotalBeforeBookkeeping
            /\ _takeoff_time' = 0]_vars
    /\ [][(_takeoff_time = 0 /\ _takeoff_time' # 0) =>
            /\ RunStep
            /\ LandedFalls
            /\ cycle'.published
            /\ _takeoff_time' = cycle'.now_us]_vars

\* in the air and disarmed by a cycle that saw both at once, nothing tracked
\* and nothing added, a tick later
C20_Witness ==
    /\ CycleEnd
    /\ ~gates["landed"].state
    /\ ~_armed
    /\ _takeoff_time = 0
    /\ _total_flight_time = 0
    /\ params = [high |-> 0, low |-> 0]
    /\ cycle.accounted
    /\ cycle.published
    /\ "landed" \in cycle.flipped
    /\ cycle.now_us > 1

\* ------------------------------------------------------------ parameters
\* C17: a cycle reads the parameters back exactly if the parameter bus
\* reports an update or no cycle has run before it; a second or later cycle
\* without an update does not.
C17_RefreshGated ==
    [][RunStep => (cycle'.refreshed <=> (param_updated \/ cycle.now_us = 0))]_vars

\* a later cycle read back halves that were set from outside
C17_Witness ==
    /\ CycleEnd
    /\ cycle.refreshed
    /\ cycle.now_us > 1
    /\ _land_detected.timestamp < cycle.now_us
    /\ params = [high |-> 1, low |-> -2]
    /\ _total_flight_time = Concatenated(params)

\* C18: no cycle leaves an update pending on the parameter bus, the cycle
\* that commits the two halves included; only a step that is not a cycle
\* raises one, and the cycle that follows an accounting cycle directly does
\* not read the parameters back.
C18_SilentPersistence ==
    /\ [](CycleEnd => ~param_updated)
    /\ [][(param_updated' /\ ~param_updated) => ~RunStep]_vars
    /\ [][(RunStep /\ pc = "ran" /\ cycle.accounted) => ~cycle'.refreshed]_vars

\* the halves of a flight were committed by a cycle that is not the first
\* and did not read them back, and the bus is silent
C18_Witness ==
    /\ CycleEnd
    /\ cycle.accounted
    /\ ~cycle.refreshed
    /\ ~param_updated
    /\ params = SplitHalves(_total_flight_time)
    /\ cycle.now_us >= 3

\* C19: a cycle that is neither a disarm transition with a take-off tracked
\* nor a parameter refresh leaves _total_flight_time and the two persisted
\* halves as they were, whatever it arms, marks or publishes; a refresh with a
\* take-off tracked and no disarm transition leaves _takeoff_time as it was.
C19_AccumulatorFrame ==
    /\ [][(/\ RunStep
           /\ ~(DisarmTransition /\ _takeoff_time # 0)
           /\ ~cycle'.refreshed)
          => /\ _total_flight_time' = _total_flight_time
             /\ params' = params]_vars
    /\ [][(RunStep /\ cycle'.refreshed /\ _takeoff_time # 0 /\ ~DisarmTransition)
          => _takeoff_time' = _takeoff_time]_vars

\* armed and in the air, the parameters were read back and the take-off time
\* of an earlier cycle is still the tracked one
C19_Witness ==
    /\ CycleEnd
    /\ cycle.refreshed
    /\ ~cycle.accounted
    /\ _armed
    /\ ~gates["landed"].state
    /\ _takeoff_time # 0
    /\ _takeoff_time < cycle.now_us
    /\ _total_flight_time = Concatenated([high |-> 1, low |-> -2])

====
